---------------------------- MODULE Spec2Model ----------------------------
(***************************************************************************)
(* Model of crates/uv-publish/src/lib.rs: discovery of the files to        *)
(* publish, and the interpretation of the registry's HTTP response.        *)
(*                                                                         *)
(* Text (a Rust String or byte buffer) is a sequence of atoms; an atom is  *)
(* a fixed chunk of characters, and the text is the concatenation of its   *)
(* atoms.  The atoms are chosen so that a phrase the code searches for     *)
(* occurs in the text exactly when its atoms occur contiguously.           *)
(***************************************************************************)
EXTENDS Integers, Sequences, FiniteSets, TLC

VARIABLES
    \* handle_response
    registry,       \* the registry URL that was targeted
    response,       \* the received reqwest::Response
    hr_pc,          \* "received" | "done"
    hr_trace,       \* whether enabled!(Level::TRACE) held during the call
    hr_body_io,     \* what reading the body does, if it is read: Ok or a reqwest::Error
    hr_read,        \* what the call did with the body: "not_read" | "ok" | "failed"
    hr_result,      \* Result<bool, PublishSendError>
    \* extract_error_message
    ex_doc,         \* the JSON document the body was rendered from (NoDoc: none)
    ex_body,        \* argument `body`
    ex_content_type,\* argument `content_type`: Option<&str>
    ex_pc,          \* "call" | "done"
    ex_result,      \* the returned String
    \* files_for_publishing
    paths,          \* argument `paths`: the patterns
    fp_pc,          \* "paths" (outer loop) | "dists" (inner loop) | "done"
    fp_i,           \* index in `paths` of the pattern the outer loop is at
    fp_iter,        \* what the current glob iterator has yet to yield
    fp_yielded,     \* the glob results yielded so far, over all patterns
    seen,           \* FxHashSet<PathBuf>
    files,          \* Vec<(PathBuf, DistFilename)>
    fp_stat,        \* paths whose metadata was queried (is_file)
    fp_opened,      \* paths that were opened for reading
    fp_result,      \* Result<Vec<(PathBuf, DistFilename)>, PublishError>
    \* source_dist_pkg_info
    pi_archive,     \* the entries of the gzipped tar archive, in archive order
    pi_open,        \* what File::open on the archive does: "ok" | "err"
    pi_pc,          \* "open" | "entries" | "done"
    pi_i,           \* index of the entry the stream is at
    pkg_infos,      \* Vec<(PathBuf, Vec<u8>)>
    pi_result,      \* Result<Vec<u8>, PublishPrepareError>
    \* form_metadata
    fm_filename,    \* argument `filename`: the DistFilename
    fm_hash,        \* what hash_file(file) returns
    fm_contents,    \* what reading the metadata file out of the archive returns
    fm_parsed,      \* what Metadata23::parse returns on those contents
    fm_pc,          \* "call" | "done"
    fm_result,      \* Result<Vec<(&str, String)>, PublishPrepareError>
    \* upload and build_request
    up_file,        \* argument `file`: the path of the distribution
    up_size,        \* the length of the file, in chunks as the body reader reads them
    up_username,    \* argument `username`: Option<&str>
    up_password,    \* argument `password`: Option<&str>
    up_pc,          \* "hash" | "metadata" | "form" | "request" | "send" | "sending"
                    \*   | "interpret" | "done"
    up_steps,       \* the steps taken so far, in order
    up_open,        \* build_request's file: "unopened" | "open_failed" | "size_failed" | "ok"
    up_request,     \* the RequestBuilder that build_request returned
    rp_events,      \* the calls the Reporter received, in order
    up_posts,       \* the number of POST requests sent
    up_streamed,    \* the chunks of the file read into the request body
    up_result       \* Result<bool, PublishError>

respVars == <<registry, response, hr_pc, hr_trace, hr_body_io, hr_read, hr_result>>
extractVars == <<ex_doc, ex_body, ex_content_type, ex_pc, ex_result>>
discoverVars == <<paths, fp_pc, fp_i, fp_iter, fp_yielded, seen, files,
                  fp_stat, fp_opened, fp_result>>
pkgInfoVars == <<pi_archive, pi_open, pi_pc, pi_i, pkg_infos, pi_result>>
formVars == <<fm_filename, fm_hash, fm_contents, fm_parsed, fm_pc, fm_result>>
uploadVars == <<up_file, up_size, up_username, up_password, up_pc, up_steps,
                up_open, up_request, rp_events, up_posts, up_streamed, up_result>>
prepVars == <<pkgInfoVars, formVars, uploadVars>>
vars == <<respVars, extractVars, discoverVars, prepVars>>

-----------------------------------------------------------------------------
(* Option<T>: None is the empty sequence, Some(x) the one-element sequence *)
None == <<>>
Some(x) == <<x>>
is_some(o) == Len(o) = 1
unwrap(o) == o[1]

(* str::contains on text: the needle's atoms occur contiguously *)
contains(haystack, needle) ==
    \E i \in 0..(Len(haystack) - Len(needle)) :
        SubSeq(haystack, i + 1, i + Len(needle)) = needle

-----------------------------------------------------------------------------
(* Bounds *)
MaxBodyLen == 2     \* atoms of a plain-text response body
MaxFields == 2      \* fields of a JSON object given to extract_error_message
MaxElems == 2       \* elements of a JSON array given to extract_error_message
MaxPatterns == 2    \* patterns given to files_for_publishing
MaxEntries == 3     \* entries of a source distribution archive
MaxMetadata == 3    \* optional fields present plus repeated values, in a Metadata23
MaxChunks == 2      \* chunks of a file that is uploaded

SeqsUpTo(S, n) == UNION {[1..k -> S] : k \in 0..n}

-----------------------------------------------------------------------------
(* Text atoms *)
InvalidByte == "<0xFF>"          \* a byte that is not valid UTF-8
ReplacementChar == "<U+FFFD>"    \* U+FFFD REPLACEMENT CHARACTER

OverwriteArtifact == <<"overwrite ", "artifact">>
UpdatingAsset == <<"updating ", "asset">>
AlreadyBeenTaken == <<"already been ", "taken">>

TextAtoms == {"overwrite ", "artifact", "updating ", "asset", "already been ",
              "taken", InvalidByte}

(* String::from_utf8_lossy: invalid bytes become U+FFFD *)
from_utf8_lossy(bytes) ==
    [i \in 1..Len(bytes) |->
        IF bytes[i] = InvalidByte THEN ReplacementChar ELSE bytes[i]]

-----------------------------------------------------------------------------
(* JSON, as serde_json::from_str::<ErrorBody> reads it *)
Quote == "\""
Digit == "1"
Punct == {"{", "}", "[", "]", ":", ","}

TokPunct(a) == [t |-> "punct", v |-> <<a>>]
TokStr(s) == [t |-> "str", v |-> s]
TokNum == [t |-> "num", v |-> <<>>]

IsPunct(toks, i, a) == i <= Len(toks) /\ toks[i] = TokPunct(a)
IsStr(toks, i) == i <= Len(toks) /\ toks[i].t = "str"

SetMin(S) == CHOOSE x \in S : \A y \in S : x <= y

(* The tokens of a text: a string runs from a quote to the next quote, digits
   that follow each other are one number, and any other character outside a
   string is a syntax error. *)
RECURSIVE LexFrom(_, _, _)
LexFrom(body, i, toks) ==
    IF i > Len(body) THEN [ok |-> TRUE, toks |-> toks]
    ELSE IF body[i] = Quote THEN
        LET closing == {j \in (i + 1)..Len(body) : body[j] = Quote} IN
        IF closing = {} THEN [ok |-> FALSE, toks |-> <<>>]
        ELSE LexFrom(body, SetMin(closing) + 1,
                     Append(toks, TokStr(SubSeq(body, i + 1, SetMin(closing) - 1))))
    ELSE IF body[i] \in Punct THEN
        LexFrom(body, i + 1, Append(toks, TokPunct(body[i])))
    ELSE IF body[i] = Digit THEN
        LET after == {j \in (i + 1)..(Len(body) + 1) :
                         j = Len(body) + 1 \/ body[j] # Digit} IN
        LexFrom(body, SetMin(after), Append(toks, TokNum))
    ELSE [ok |-> FALSE, toks |-> <<>>]

Lex(body) == LexFrom(body, 1, <<>>)

(* serde::de::IgnoredAny: the index after the JSON value that starts at
   toks[i], or 0 when no value starts there. *)
RECURSIVE SkipValue(_, _), SkipElements(_, _), SkipMembers(_, _)
SkipValue(toks, i) ==
    IF i > Len(toks) THEN 0
    ELSE IF toks[i].t \in {"str", "num"} THEN i + 1
    ELSE IF IsPunct(toks, i, "[") THEN
        IF IsPunct(toks, i + 1, "]") THEN i + 2 ELSE SkipElements(toks, i + 1)
    ELSE IF IsPunct(toks, i, "{") THEN
        IF IsPunct(toks, i + 1, "}") THEN i + 2 ELSE SkipMembers(toks, i + 1)
    ELSE 0

SkipElements(toks, i) ==
    LET j == SkipValue(toks, i) IN
    IF j = 0 THEN 0
    ELSE IF IsPunct(toks, j, "]") THEN j + 1
    ELSE IF IsPunct(toks, j, ",") THEN SkipElements(toks, j + 1)
    ELSE 0

SkipMembers(toks, i) ==
    IF ~(IsStr(toks, i) /\ IsPunct(toks, i + 1, ":")) THEN 0
    ELSE LET j == SkipValue(toks, i + 2) IN
         IF j = 0 THEN 0
         ELSE IF IsPunct(toks, j, "}") THEN j + 1
         ELSE IF IsPunct(toks, j, ",") THEN SkipMembers(toks, j + 1)
         ELSE 0

ParseFailed == [ok |-> FALSE, code |-> <<>>]

(* The derived visit_map of ErrorBody: `code` must be a string and occur once,
   any other field is skipped; the object must end the input. *)
RECURSIVE VisitMap(_, _, _)
VisitMap(toks, i, code) ==
    IF ~(IsStr(toks, i) /\ IsPunct(toks, i + 1, ":")) THEN ParseFailed
    ELSE LET isCode == toks[i].v = <<"code">>
             j == IF isCode
                  THEN (IF IsStr(toks, i + 2) /\ code = None THEN i + 3 ELSE 0)
                  ELSE SkipValue(toks, i + 2)
             code2 == IF isCode /\ j # 0 THEN Some(toks[i + 2].v) ELSE code
         IN  IF j = 0 THEN ParseFailed
             ELSE IF IsPunct(toks, j, "}") THEN
                 IF j = Len(toks) /\ is_some(code2)
                 THEN [ok |-> TRUE, code |-> unwrap(code2)]
                 ELSE ParseFailed
             ELSE IF IsPunct(toks, j, ",") THEN VisitMap(toks, j + 1, code2)
             ELSE ParseFailed

(* The derived visit_seq of ErrorBody: the one field, positionally. *)
VisitSeq(toks) ==
    IF Len(toks) = 3 /\ IsStr(toks, 2) /\ IsPunct(toks, 3, "]")
    THEN [ok |-> TRUE, code |-> toks[2].v]
    ELSE ParseFailed

(* serde_json::from_str::<ErrorBody>(&body) *)
from_str_ErrorBody(body) ==
    LET lexed == Lex(body) IN
    IF ~lexed.ok THEN ParseFailed
    ELSE IF IsPunct(lexed.toks, 1, "{") THEN
        (IF IsPunct(lexed.toks, 2, "}") THEN ParseFailed
         ELSE VisitMap(lexed.toks, 2, None))
    ELSE IF IsPunct(lexed.toks, 1, "[") THEN VisitSeq(lexed.toks)
    ELSE ParseFailed

ApplicationJson == "application/json"

(* PublishSendError::extract_error_message *)
extract_error_message(body, content_type) ==
    IF content_type = Some(ApplicationJson) THEN
        LET structured == from_str_ErrorBody(body) IN
        IF structured.ok THEN structured.code ELSE body
    ELSE body

-----------------------------------------------------------------------------
(* Result<bool, PublishSendError> *)
Ok(b) ==
    [kind |-> "Ok", value |-> b, status |-> 0, message |-> <<>>, url |-> "",
     source |-> ""]
RedirectError(u) ==
    [kind |-> "RedirectError", value |-> FALSE, status |-> 0, message |-> <<>>,
     url |-> u, source |-> ""]
StatusNoBody(code, err) ==
    [kind |-> "StatusNoBody", value |-> FALSE, status |-> code, message |-> <<>>,
     url |-> "", source |-> err]
Status(code, msg) ==
    [kind |-> "Status", value |-> FALSE, status |-> code, message |-> msg,
     url |-> "", source |-> ""]
PermissionDenied(code, msg) ==
    [kind |-> "PermissionDenied", value |-> FALSE, status |-> code,
     message |-> msg, url |-> "", source |-> ""]
NoResult ==
    [kind |-> "None", value |-> FALSE, status |-> 0, message |-> <<>>, url |-> "",
     source |-> ""]

NewlyUploaded == Ok(TRUE)
AlreadyExists == Ok(FALSE)

(* The outcome of response.text() / response.bytes(): the body, or a
   reqwest::Error *)
ReadErrors == {"connection closed before message completed", "error decoding response body"}
ReadOk == [ok |-> TRUE, err |-> ""]
ReadOutcomes == {ReadOk} \cup {[ok |-> FALSE, err |-> e] : e \in ReadErrors}

(* StatusCode::is_success *)
is_success(status_code) == 200 <= status_code /\ status_code < 300

(* HeaderValue::to_str: only visible ASCII is a str *)
NonAsciiHeader == "application/json<0xE9>"
to_str(header) == IF header = NonAsciiHeader THEN None ELSE Some(header)

(* response.headers().get(CONTENT_TYPE).and_then(to_str().ok()) *)
content_type_of(resp) ==
    IF is_some(resp.content_type) THEN to_str(unwrap(resp.content_type)) ELSE None

(* Mutants of classify_error *)
classify_error_no_409(status_code, upload_error, content_type) ==
    IF status_code = 403 THEN
        IF contains(upload_error, OverwriteArtifact) THEN Ok(FALSE)
        ELSE PermissionDenied(status_code,
                              extract_error_message(upload_error, content_type))
    ELSE IF status_code = 400
            /\ (contains(upload_error, UpdatingAsset)
                \/ contains(upload_error, AlreadyBeenTaken)) THEN Ok(FALSE)
    ELSE Status(status_code, extract_error_message(upload_error, content_type))

classify_error_403_any_phrase(status_code, upload_error, content_type) ==
    IF status_code = 403 THEN
        IF contains(upload_error, OverwriteArtifact)
           \/ contains(upload_error, UpdatingAsset)
           \/ contains(upload_error, AlreadyBeenTaken) THEN Ok(FALSE)
        ELSE PermissionDenied(status_code,
                              extract_error_message(upload_error, content_type))
    ELSE IF status_code = 409 THEN Ok(FALSE)
    ELSE IF status_code = 400
            /\ (contains(upload_error, UpdatingAsset)
                \/ contains(upload_error, AlreadyBeenTaken)) THEN Ok(FALSE)
    ELSE Status(status_code, extract_error_message(upload_error, content_type))

classify_error_400_one_phrase(status_code, upload_error, content_type) ==
    IF status_code = 403 THEN
        IF contains(upload_error, OverwriteArtifact) THEN Ok(FALSE)
        ELSE PermissionDenied(status_code,
                              extract_error_message(upload_error, content_type))
    ELSE IF status_code = 409 THEN Ok(FALSE)
    ELSE IF status_code = 400 /\ contains(upload_error, UpdatingAsset) THEN Ok(FALSE)
    ELSE Status(status_code, extract_error_message(upload_error, content_type))

classify_error_400_overwrite(status_code, upload_error, content_type) ==
    IF status_code = 403 THEN
        IF contains(upload_error, OverwriteArtifact) THEN Ok(FALSE)
        ELSE PermissionDenied(status_code,
                              extract_error_message(upload_error, content_type))
    ELSE IF status_code = 409 THEN Ok(FALSE)
    ELSE IF status_code = 400
            /\ (contains(upload_error, UpdatingAsset)
                \/ contains(upload_error, AlreadyBeenTaken)
                \/ contains(upload_error, OverwriteArtifact)) THEN Ok(FALSE)
    ELSE Status(status_code, extract_error_message(upload_error, content_type))

(* handle_response, once the body was read: the registries' ways to say that
   the file exists, and the failures *)
classify_error(status_code, upload_error, content_type) ==
    IF status_code = 403 THEN
        IF contains(upload_error, OverwriteArtifact) THEN Ok(FALSE)
        ELSE PermissionDenied(status_code,
                              extract_error_message(upload_error, content_type))
    ELSE IF status_code = 409 THEN Ok(FALSE)
    ELSE IF status_code = 400
            /\ (contains(upload_error, UpdatingAsset)
                \/ contains(upload_error, AlreadyBeenTaken)) THEN Ok(FALSE)
    ELSE Status(status_code, extract_error_message(upload_error, content_type))

Outcome(result, read) == [result |-> result, read |-> read]
ReadState(read) == IF read.ok THEN "ok" ELSE "failed"

(* Mutants of handle_response *)
handle_response_redirect_after_success(reg, resp, trace, read) ==
    IF is_success(resp.status) THEN
        Outcome(Ok(TRUE), IF trace THEN ReadState(read) ELSE "not_read")
    ELSE IF resp.url # reg THEN Outcome(RedirectError(resp.url), "not_read")
    ELSE IF ~read.ok THEN Outcome(StatusNoBody(resp.status, read.err), "failed")
    ELSE Outcome(classify_error(resp.status, from_utf8_lossy(resp.body),
                                content_type_of(resp)), "ok")

handle_response_success_needs_body(reg, resp, trace, read) ==
    IF resp.url # reg THEN Outcome(RedirectError(resp.url), "not_read")
    ELSE IF is_success(resp.status) THEN
        IF trace /\ ~read.ok
        THEN Outcome(StatusNoBody(resp.status, read.err), "failed")
        ELSE Outcome(Ok(TRUE), IF trace THEN "ok" ELSE "not_read")
    ELSE IF ~read.ok THEN Outcome(StatusNoBody(resp.status, read.err), "failed")
    ELSE Outcome(classify_error(resp.status, from_utf8_lossy(resp.body),
                                content_type_of(resp)), "ok")

handle_response_409_before_read(reg, resp, trace, read) ==
    IF resp.url # reg THEN Outcome(RedirectError(resp.url), "not_read")
    ELSE IF is_success(resp.status) THEN
        Outcome(Ok(TRUE), IF trace THEN ReadState(read) ELSE "not_read")
    ELSE IF resp.status = 409 THEN Outcome(Ok(FALSE), "not_read")
    ELSE IF ~read.ok THEN Outcome(StatusNoBody(resp.status, read.err), "failed")
    ELSE Outcome(classify_error(resp.status, from_utf8_lossy(resp.body),
                                content_type_of(resp)), "ok")

(* handle_response(registry, response).  `trace` is enabled!(Level::TRACE),
   `read` what reading the body does if it is read. *)
handle_response(reg, resp, trace, read) ==
    IF resp.url # reg THEN Outcome(RedirectError(resp.url), "not_read")
    ELSE IF is_success(resp.status) THEN
        Outcome(Ok(TRUE), IF trace THEN ReadState(read) ELSE "not_read")
    ELSE IF ~read.ok THEN Outcome(StatusNoBody(resp.status, read.err), "failed")
    ELSE Outcome(classify_error(resp.status, from_utf8_lossy(resp.body),
                                content_type_of(resp)), "ok")

-----------------------------------------------------------------------------
(* JSON documents and their text, the inputs of the JSON cases *)
NoDoc == [t |-> "none", s |-> <<>>, items |-> <<>>]
DStr(s) == [t |-> "str", s |-> s, items |-> <<>>]
DNum == [t |-> "num", s |-> <<>>, items |-> <<>>]
Item(key, val) == [key |-> key, val |-> val]
DArr(vals) == [t |-> "arr", s |-> <<>>,
               items |-> [i \in 1..Len(vals) |-> Item(<<>>, vals[i])]]
DObj(fields) == [t |-> "obj", s |-> <<>>, items |-> fields]

RECURSIVE Render(_), RenderItems(_, _)
Render(d) ==
    CASE d.t = "str" -> <<Quote>> \o d.s \o <<Quote>>
      [] d.t = "num" -> <<Digit>>
      [] d.t = "arr" -> <<"[">> \o RenderItems(d.items, FALSE) \o <<"]">>
      [] d.t = "obj" -> <<"{">> \o RenderItems(d.items, TRUE) \o <<"}">>
      [] OTHER -> <<>>

RenderItems(items, keyed) ==
    IF items = <<>> THEN <<>>
    ELSE LET one == (IF keyed THEN <<Quote>> \o items[1].key \o <<Quote, ":">>
                     ELSE <<>>) \o Render(items[1].val)
         IN  IF Len(items) = 1 THEN one
             ELSE one \o <<",">> \o RenderItems(Tail(items), keyed)

KeyCode == <<"code">>
KeyMessage == <<"message">>
StrX == <<"X">>

StrContents == {StrX, UpdatingAsset}
Scalars == {DStr(s) : s \in StrContents} \cup {DNum}
FieldValues ==
    Scalars \cup {DArr(<<>>), DArr(<<DStr(StrX)>>), DObj(<<>>),
                  DObj(<<Item(KeyCode, DStr(StrX))>>)}
Fields == {Item(k, v) : k \in {KeyCode, KeyMessage}, v \in FieldValues}
Docs == {DObj(f) : f \in SeqsUpTo(Fields, MaxFields)}
        \cup {DArr(e) : e \in SeqsUpTo(Scalars, MaxElems)}
        \cup Scalars

(* Text that is no JSON document: a document cut short, or followed by more *)
Perturbations == {"none", "truncated", "trailing"}
Perturb(text, how) ==
    CASE how = "truncated" -> SubSeq(text, 1, Len(text) - 1)
      [] how = "trailing" -> text \o <<"}">>
      [] OTHER -> text

(* Response bodies: plain text, and the JSON error bodies of a registry *)
TextBodies == SeqsUpTo(TextAtoms, MaxBodyLen)
SampleJsonBodies ==
    { Render(DObj(<<Item(KeyCode, DStr(StrX)), Item(KeyMessage, DStr(StrX))>>)),
      Render(DObj(<<Item(KeyCode, DStr(OverwriteArtifact))>>)),
      Render(DObj(<<Item(KeyMessage, DStr(UpdatingAsset)), Item(KeyCode, DStr(StrX))>>)),
      Render(DObj(<<Item(KeyCode, DStr(StrX)), Item(KeyMessage, DStr(AlreadyBeenTaken))>>)),
      Render(DObj(<<Item(KeyMessage, DStr(OverwriteArtifact))>>)),
      Render(DArr(<<DStr(StrX)>>)) }
ResponseBodies == TextBodies \cup SampleJsonBodies

Urls == {"https://test.pypi.org/simple", "https://test.pypi.org/simple/"}
StatusCodes == {100, 199, 200, 204, 299, 300, 400, 401, 403, 409, 500}
ContentTypeHeaders ==
    {None, Some(ApplicationJson), Some("application/json; charset=utf-8"),
     Some("text/plain"), Some(NonAsciiHeader)}
ContentTypes ==
    {None, Some(ApplicationJson), Some("application/json; charset=utf-8"),
     Some("text/plain"), Some("Application/JSON")}

Responses ==
    [url : Urls, status : StatusCodes, content_type : ContentTypeHeaders,
     body : ResponseBodies]
NoResponse == [url |-> "", status |-> 0, content_type |-> None, body |-> <<>>]

-----------------------------------------------------------------------------
(* The components at rest *)
ResponseIdle ==
    /\ registry = ""
    /\ response = NoResponse
    /\ hr_pc = "idle"
    /\ hr_trace = FALSE
    /\ hr_body_io = ReadOk
    /\ hr_read = "not_read"
    /\ hr_result = NoResult

ExtractIdle ==
    /\ ex_doc = NoDoc
    /\ ex_body = <<>>
    /\ ex_content_type = None
    /\ ex_pc = "idle"
    /\ ex_result = <<>>

-----------------------------------------------------------------------------
(* handle_response on a received response *)
HandleResponse ==
    /\ hr_pc = "received"
    /\ \E trace \in BOOLEAN, read \in ReadOutcomes :
        LET out == handle_response(registry, response, trace, read) IN
        /\ hr_trace' = trace
        /\ hr_body_io' = read
        /\ hr_read' = out.read
        /\ hr_result' = out.result
    /\ hr_pc' = "done"
    /\ UNCHANGED <<registry, response, extractVars, discoverVars, prepVars>>

(* extract_error_message on a body and a content type *)
ExtractErrorMessage ==
    /\ ex_pc = "call"
    /\ ex_result' = extract_error_message(ex_body, ex_content_type)
    /\ ex_pc' = "done"
    /\ UNCHANGED <<ex_doc, ex_body, ex_content_type, respVars, discoverVars, prepVars>>

-----------------------------------------------------------------------------
(* The file system that discovery runs on:                                 *)
(*   dist/build/                       a directory                         *)
(*   dist/notes.txt                    a file                              *)
(*   dist/old-0.9.tar.gz/              a directory named like an sdist     *)
(*   dist/pkg-1.0-py3-none-any.whl     a file                              *)
(*   dist/pkg-1.0.tar.gz               a file                              *)
(*   dist/private/                     a directory that cannot be read     *)
(*   dist/<0xFF>.whl                   a file whose name is not UTF-8      *)
(*   latest -> dist                    a symbolic link                     *)
P_build == "dist/build"
P_notes == "dist/notes.txt"
P_old == "dist/old-0.9.tar.gz"
P_wheel == "dist/pkg-1.0-py3-none-any.whl"
P_sdist == "dist/pkg-1.0.tar.gz"
P_private == "dist/private"
P_raw == "dist/<0xFF>.whl"
P_latest_old == "latest/old-0.9.tar.gz"
P_latest_sdist == "latest/pkg-1.0.tar.gz"

(* Path::is_file: a regular file, symbolic links followed *)
is_file(path) == path \in {P_notes, P_wheel, P_sdist, P_raw, P_latest_sdist}

(* Path::file_name().and_then(OsStr::to_str) *)
file_name(path) ==
    CASE path = P_build -> Some("build")
      [] path = P_notes -> Some("notes.txt")
      [] path \in {P_old, P_latest_old} -> Some("old-0.9.tar.gz")
      [] path = P_wheel -> Some("pkg-1.0-py3-none-any.whl")
      [] path \in {P_sdist, P_latest_sdist} -> Some("pkg-1.0.tar.gz")
      [] path = P_private -> Some("private")
      [] OTHER -> None

(* fs::canonicalize: the file a path denotes *)
canonicalize(path) ==
    CASE path = P_latest_old -> P_old
      [] path = P_latest_sdist -> P_sdist
      [] OTHER -> path

(* DistFilename *)
SourceDistFilename(name, version, extension) ==
    [kind |-> "SourceDistFilename", name |-> name, version |-> version,
     extension |-> extension, python_tag |-> <<>>]
WheelFilename(name, version, python_tag) ==
    [kind |-> "WheelFilename", name |-> name, version |-> version,
     extension |-> "whl", python_tag |-> python_tag]

(* DistFilename::try_from_normalized_filename *)
try_from_normalized_filename(filename) ==
    CASE filename = "pkg-1.0.tar.gz" -> Some(SourceDistFilename("pkg", "1.0", "tar.gz"))
      [] filename = "old-0.9.tar.gz" -> Some(SourceDistFilename("old", "0.9", "tar.gz"))
      [] filename = "pkg-1.0-py3-none-any.whl" -> Some(WheelFilename("pkg", "1.0", <<"py3">>))
      [] OTHER -> None

(* One item of glob's iterator: Ok(path), or a GlobError at a path *)
GlobOk(path) == [ok |-> TRUE, path |-> path]
GlobErr(path) == [ok |-> FALSE, path |-> path]

Patterns ==
    {"dist/*", "dist/*.whl", "dist/*.tar.gz", "latest/*.tar.gz", "dist/b*",
     "dist/n*", "dist/*/*.whl", "wheels/*", "dist/["}

(* glob(&path): Err(PatternError) for a malformed pattern, else the matches in
   alphabetical order *)
pattern_is_valid(pattern) == pattern # "dist/["
glob(pattern) ==
    CASE pattern = "dist/*" ->
            <<GlobOk(P_build), GlobOk(P_notes), GlobOk(P_old), GlobOk(P_wheel),
              GlobOk(P_sdist), GlobOk(P_private), GlobOk(P_raw)>>
      [] pattern = "dist/*.whl" -> <<GlobOk(P_wheel), GlobOk(P_raw)>>
      [] pattern = "dist/*.tar.gz" -> <<GlobOk(P_old), GlobOk(P_sdist)>>
      [] pattern = "latest/*.tar.gz" -> <<GlobOk(P_latest_old), GlobOk(P_latest_sdist)>>
      [] pattern = "dist/b*" -> <<GlobOk(P_build)>>
      [] pattern = "dist/n*" -> <<GlobOk(P_notes)>>
      [] pattern = "dist/*/*.whl" -> <<GlobErr(P_private)>>
      [] OTHER -> <<>>

(* Result<Vec<(PathBuf, DistFilename)>, PublishError> *)
FilesOk(fs) == [kind |-> "Ok", files |-> fs, path |-> ""]
PatternErr(pattern) == [kind |-> "Pattern", files |-> <<>>, path |-> pattern]
GlobError(path) == [kind |-> "Glob", files |-> <<>>, path |-> path]
NoFiles == [kind |-> "NoFiles", files |-> <<>>, path |-> ""]
InvalidFilename(path) == [kind |-> "InvalidFilename", files |-> <<>>, path |-> path]
Continue == [kind |-> "Continue", files |-> <<>>, path |-> ""]

FileEntry(path, filename) == [path |-> path, filename |-> filename]
Visit(seen_, files_, stat_, result) ==
    [seen |-> seen_, files |-> files_, stat |-> stat_, result |-> result]

(* Mutant of visit_dist: a name that does not parse is skipped *)
visit_dist_skip_invalid(dist, seen_, files_) ==
    IF ~dist.ok THEN Visit(seen_, files_, {}, GlobError(dist.path))
    ELSE IF ~is_file(dist.path) THEN Visit(seen_, files_, {dist.path}, Continue)
    ELSE IF dist.path \in seen_ THEN Visit(seen_, files_, {dist.path}, Continue)
    ELSE IF file_name(dist.path) = None
        THEN Visit(seen_ \cup {dist.path}, files_, {dist.path}, Continue)
    ELSE LET filename == try_from_normalized_filename(unwrap(file_name(dist.path))) IN
        IF filename = None
        THEN Visit(seen_ \cup {dist.path}, files_, {dist.path}, Continue)
        ELSE Visit(seen_ \cup {dist.path},
                   Append(files_, FileEntry(dist.path, unwrap(filename))),
                   {dist.path}, Continue)

(* The body of the inner loop of files_for_publishing, for one glob result *)
visit_dist(dist, seen_, files_) ==
    IF ~dist.ok THEN Visit(seen_, files_, {}, GlobError(dist.path))
    ELSE IF ~is_file(dist.path) THEN Visit(seen_, files_, {dist.path}, Continue)
    ELSE IF dist.path \in seen_ THEN Visit(seen_, files_, {dist.path}, Continue)
    ELSE IF file_name(dist.path) = None
        THEN Visit(seen_ \cup {dist.path}, files_, {dist.path}, Continue)
    ELSE LET filename == try_from_normalized_filename(unwrap(file_name(dist.path))) IN
        IF filename = None
        THEN Visit(seen_ \cup {dist.path}, files_, {dist.path},
                   InvalidFilename(dist.path))
        ELSE Visit(seen_ \cup {dist.path},
                   Append(files_, FileEntry(dist.path, unwrap(filename))),
                   {dist.path}, Continue)

(* What files_for_publishing returns once every pattern was expanded *)
files_result(files_) == FilesOk(files_)

DiscoverIdle ==
    /\ paths = <<>>
    /\ fp_pc = "idle"
    /\ fp_i = 1
    /\ fp_iter = <<>>
    /\ fp_yielded = <<>>
    /\ seen = {}
    /\ files = <<>>
    /\ fp_stat = {}
    /\ fp_opened = {}
    /\ fp_result = Continue

(* for path in paths: glob(&path)? *)
StartGlob ==
    /\ fp_pc = "paths"
    /\ fp_i <= Len(paths)
    /\ IF pattern_is_valid(paths[fp_i])
       THEN /\ fp_iter' = glob(paths[fp_i])
            /\ fp_pc' = "dists"
            /\ UNCHANGED fp_result
       ELSE /\ fp_result' = PatternErr(paths[fp_i])
            /\ fp_pc' = "done"
            /\ UNCHANGED fp_iter
    /\ UNCHANGED <<paths, fp_i, fp_yielded, seen, files, fp_stat, fp_opened,
                   respVars, extractVars, prepVars>>

(* for dist in glob(..): one turn of the inner loop *)
VisitDist ==
    /\ fp_pc = "dists"
    /\ fp_iter # <<>>
    /\ LET v == visit_dist(Head(fp_iter), seen, files) IN
        /\ seen' = v.seen
        /\ files' = v.files
        /\ fp_stat' = fp_stat \cup v.stat
        /\ IF v.result = Continue
           THEN UNCHANGED <<fp_pc, fp_result>>
           ELSE fp_pc' = "done" /\ fp_result' = v.result
    /\ fp_yielded' = Append(fp_yielded, Head(fp_iter))
    /\ fp_iter' = Tail(fp_iter)
    /\ UNCHANGED <<paths, fp_i, fp_opened, respVars, extractVars, prepVars>>

(* the glob iterator is exhausted: on to the next pattern *)
EndGlob ==
    /\ fp_pc = "dists"
    /\ fp_iter = <<>>
    /\ fp_pc' = "paths"
    /\ fp_i' = fp_i + 1
    /\ UNCHANGED <<paths, fp_iter, fp_yielded, seen, files, fp_stat, fp_opened,
                   fp_result, respVars, extractVars, prepVars>>

(* every pattern was expanded: Ok(files) *)
ReturnFiles ==
    /\ fp_pc = "paths"
    /\ fp_i > Len(paths)
    /\ fp_result' = files_result(files)
    /\ fp_pc' = "done"
    /\ UNCHANGED <<paths, fp_i, fp_iter, fp_yielded, seen, files, fp_stat,
                   fp_opened, respVars, extractVars, prepVars>>

-----------------------------------------------------------------------------
(* source_dist_pkg_info: the PKG-INFO of a source distribution archive *)

(* A path is text whose atoms are the separator "/" and whole names.
   Path::components: a leading separator is the root component, a leading "."
   is a component, every other "." and every empty name (doubled or trailing
   separator) is dropped, and any other name is a component. *)
Sep == "/"
CurDir == "."
RootDir == "<root>"
components(path) ==
    LET has_root == path # <<>> /\ path[1] = Sep
        kept == {i \in 1..Len(path) :
                    /\ path[i] # Sep
                    /\ (path[i] = CurDir => i = 1)}
        Pick[i \in 0..Len(path)] ==
            IF i = 0 THEN <<>>
            ELSE IF i \in kept THEN Append(Pick[i - 1], path[i])
            ELSE Pick[i - 1]
    IN  (IF has_root THEN <<RootDir>> ELSE <<>>) \o Pick[Len(path)]

PKG_INFO == "PKG-INFO"

is_pkg_info_any_depth(path) ==
    LET c == components(path) IN Len(c) >= 1 /\ c[Len(c)] = PKG_INFO

(* the filter of lines 275-284: exactly two components, the second PKG-INFO *)
is_pkg_info(path) ==
    LET c == components(path) IN Len(c) = 2 /\ c[2] = PKG_INFO

(* Path::to_string_lossy *)
to_string_lossy(path) == from_utf8_lossy(path)

(* Itertools::join *)
RECURSIVE join(_, _)
join(texts, sep) ==
    IF texts = <<>> THEN <<>>
    ELSE IF Len(texts) = 1 THEN texts[1]
    ELSE texts[1] \o sep \o join(Tail(texts), sep)

(* Result<Vec<u8>, PublishPrepareError> *)
PkgInfoOk(bytes) == [kind |-> "Ok", bytes |-> bytes, text |-> <<>>]
PrepareIo == [kind |-> "Io", bytes |-> <<>>, text |-> <<>>]
MissingPkgInfo == [kind |-> "MissingPkgInfo", bytes |-> <<>>, text |-> <<>>]
MultiplePkgInfo(text) == [kind |-> "MultiplePkgInfo", bytes |-> <<>>, text |-> text]
PrepareRead(text) == [kind |-> "Read", bytes |-> <<>>, text |-> text]
PkgInfoPending == [kind |-> "Pending", bytes |-> <<>>, text |-> <<>>]

(* The archives: an entry has its path as stored, its data, and the fault
   reading it runs into: "entry" (the entry's header cannot be read), "path"
   (its path cannot be read), "read" (its data cannot be read), or "none". *)
Entry(path, data, fault) == [path |-> path, data |-> data, fault |-> fault]
Data1 == <<"Name: pkg">>
Data2 == <<"Name: other">>
PkgInfoPath == <<"pkg-1.0", Sep, PKG_INFO>>
EntryPaths ==
    { PkgInfoPath,
      <<"other", Sep, PKG_INFO>>,
      <<PKG_INFO>>,
      <<"pkg-1.0", Sep, "src", Sep, PKG_INFO>>,
      <<"pkg-1.0", Sep, "pkg-info">>,
      <<CurDir, Sep, "pkg-1.0", Sep, PKG_INFO>>,
      <<"pkg-1.0", Sep, CurDir, Sep, PKG_INFO>>,
      <<"pkg-1.0", Sep, Sep, PKG_INFO>>,
      <<Sep, PKG_INFO>>,
      <<InvalidByte, Sep, PKG_INFO>> }
Entries ==
    {Entry(p, Data1, "none") : p \in EntryPaths}
        \cup {Entry(PkgInfoPath, Data2, "none")}
        \cup {Entry(PkgInfoPath, Data1, f) : f \in {"entry", "path", "read"}}
        \cup {Entry(<<PKG_INFO>>, Data1, "read")}

(* one entry through try_filter_map: the entry is kept, skipped, or ends the
   stream with an error *)
PkgInfoVisit(pkg_infos_, result) == [pkg_infos |-> pkg_infos_, result |-> result]
visit_entry(entry, pkg_infos_) ==
    IF entry.fault \in {"entry", "path"}
    THEN PkgInfoVisit(pkg_infos_, PrepareIo)
    ELSE IF ~is_pkg_info(entry.path)
    THEN PkgInfoVisit(pkg_infos_, PkgInfoPending)
    ELSE IF entry.fault = "read"
    THEN PkgInfoVisit(pkg_infos_, PrepareRead(to_string_lossy(entry.path)))
    ELSE PkgInfoVisit(Append(pkg_infos_, <<entry.path, entry.data>>),
                      PkgInfoPending)

(* match pkg_infos.len() *)
pkg_info_result(pkg_infos_) ==
    IF Len(pkg_infos_) = 0 THEN MissingPkgInfo
    ELSE IF Len(pkg_infos_) = 1 THEN PkgInfoOk(pkg_infos_[1][2])
    ELSE MultiplePkgInfo(
            join([i \in 1..Len(pkg_infos_) |-> to_string_lossy(pkg_infos_[i][1])],
                 <<", ">>))

PkgInfoIdle ==
    /\ pi_archive = <<>>
    /\ pi_open = "ok"
    /\ pi_pc = "idle"
    /\ pi_i = 1
    /\ pkg_infos = <<>>
    /\ pi_result = PkgInfoPending

(* File::open(&file).await? and archive.entries()? *)
OpenArchive ==
    /\ pi_pc = "open"
    /\ IF pi_open = "ok"
       THEN pi_pc' = "entries" /\ UNCHANGED pi_result
       ELSE pi_pc' = "done" /\ pi_result' = PrepareIo
    /\ UNCHANGED <<pi_archive, pi_open, pi_i, pkg_infos,
                   respVars, extractVars, discoverVars, formVars, uploadVars>>

(* the next entry of the stream goes through the filter *)
VisitEntry ==
    /\ pi_pc = "entries"
    /\ pi_i <= Len(pi_archive)
    /\ LET v == visit_entry(pi_archive[pi_i], pkg_infos) IN
        /\ pkg_infos' = v.pkg_infos
        /\ IF v.result = PkgInfoPending
           THEN UNCHANGED <<pi_pc, pi_result>>
           ELSE pi_pc' = "done" /\ pi_result' = v.result
    /\ pi_i' = pi_i + 1
    /\ UNCHANGED <<pi_archive, pi_open, respVars, extractVars, discoverVars,
                   formVars, uploadVars>>

(* the stream is exhausted: the match on the number of PKG-INFO files *)
CollectPkgInfos ==
    /\ pi_pc = "entries"
    /\ pi_i > Len(pi_archive)
    /\ pi_result' = pkg_info_result(pkg_infos)
    /\ pi_pc' = "done"
    /\ UNCHANGED <<pi_archive, pi_open, pi_i, pkg_infos,
                   respVars, extractVars, discoverVars, formVars, uploadVars>>

-----------------------------------------------------------------------------
(* form_metadata: the text fields of the upload form *)

(* pypi_types::Metadata23 *)
Metadata23(metadata_version, name, version, opt, rep) ==
    [metadata_version |-> metadata_version, name |-> name, version |-> version,
     summary |-> opt["summary"],
     description |-> opt["description"],
     description_content_type |-> opt["description_content_type"],
     author |-> opt["author"],
     author_email |-> opt["author_email"],
     maintainer |-> opt["maintainer"],
     maintainer_email |-> opt["maintainer_email"],
     license |-> opt["license"],
     keywords |-> opt["keywords"],
     home_page |-> opt["home_page"],
     download_url |-> opt["download_url"],
     requires_python |-> opt["requires_python"],
     classifiers |-> rep["classifiers"],
     platforms |-> rep["platforms"],
     requires_dist |-> rep["requires_dist"],
     provides_dist |-> rep["provides_dist"],
     obsoletes_dist |-> rep["obsoletes_dist"],
     requires_external |-> rep["requires_external"],
     project_urls |-> rep["project_urls"]]

OptionNames ==
    {"summary", "description", "description_content_type", "author",
     "author_email", "maintainer", "maintainer_email", "license", "keywords",
     "home_page", "download_url", "requires_python"}
VecNames ==
    <<"classifiers", "platforms", "requires_dist", "provides_dist",
      "obsoletes_dist", "requires_external", "project_urls">>
NoMetadata ==
    Metadata23(<<>>, <<>>, <<>>, [f \in OptionNames |-> None],
               [f \in {VecNames[k] : k \in 1..Len(VecNames)} |-> <<>>])

(* Result<String, io::Error> of hash_file *)
HashOk(hex) == [kind |-> "Ok", hex |-> hex]
HashErr == [kind |-> "Io", hex |-> <<>>]

(* Result<Metadata23, MetadataError> of Metadata23::parse *)
ParseOk(metadata_) == [kind |-> "Ok", metadata |-> metadata_]
ParseErr == [kind |-> "Metadata23", metadata |-> NoMetadata]

(* Result<Metadata23, PublishPrepareError> / Result<Vec<..>, PublishPrepareError> *)
InvalidExtension(source_dist) ==
    [kind |-> "InvalidExtension", bytes |-> <<>>,
     text |-> <<source_dist.name, "-", source_dist.version, ".",
                source_dist.extension>>]
PrepareMetadata == [kind |-> "Metadata", bytes |-> <<>>, text |-> <<>>]
PrepareMetadata23 == [kind |-> "Metadata23", bytes |-> <<>>, text |-> <<>>]
NoPrepareError == [kind |-> "None", bytes |-> <<>>, text |-> <<>>]
MetadataOk(metadata_) == [kind |-> "Ok", metadata |-> metadata_, err |-> NoPrepareError]
MetadataErr(err) == [kind |-> "Err", metadata |-> NoMetadata, err |-> err]
FormOk(form) == [kind |-> "Ok", form |-> form, err |-> NoPrepareError]
FormErr(err) == [kind |-> "Err", form |-> <<>>, err |-> err]
FormPending == [kind |-> "Pending", form |-> <<>>, err |-> NoPrepareError]

(* metadata(file, filename): `contents` is what source_dist_pkg_info or
   read_metadata_async_seek returns, `parsed` what Metadata23::parse makes of it *)
metadata(filename, contents, parsed) ==
    IF filename.kind = "SourceDistFilename" /\ filename.extension # "tar.gz"
    THEN MetadataErr(InvalidExtension(filename))
    ELSE IF contents.kind # "Ok" THEN MetadataErr(contents)
    ELSE IF parsed.kind # "Ok" THEN MetadataErr(PrepareMetadata23)
    ELSE MetadataOk(parsed.metadata)

(* DistFilename::filetype *)
filetype(filename) ==
    IF filename.kind = "WheelFilename" THEN <<"bdist_wheel">> ELSE <<"sdist">>

(* lines 351-355 *)
pyversion(filename) ==
    IF filename.kind = "WheelFilename"
    THEN join([i \in 1..Len(filename.python_tag) |-> <<filename.python_tag[i]>>],
              <<".">>)
    ELSE <<"source">>

add_option_always(name, value) ==
    <<<<name, IF is_some(value) THEN unwrap(value) ELSE <<>>>>>>

(* the closure add_option *)
add_option(name, value) ==
    IF is_some(value) THEN <<<<name, unwrap(value)>>>> ELSE <<>>

(* Option::unwrap_or(String::new()) *)
unwrap_or_empty(value) ==
    IF is_some(value) THEN unwrap(value) ELSE <<>>

add_vec_reversed(name, values) ==
    [i \in 1..Len(values) |-> <<name, values[Len(values) + 1 - i]>>]

(* the closure add_vec *)
add_vec(name, values) ==
    [i \in 1..Len(values) |-> <<name, values[i]>>]

form_metadata(filename, hash, contents, parsed) ==
    IF hash.kind # "Ok" THEN FormErr(PrepareIo)
    ELSE
    LET md == metadata(filename, contents, parsed) IN
    IF md.kind # "Ok" THEN FormErr(md.err)
    ELSE
    LET m == md.metadata IN
    FormOk(
        << <<":action", <<"file_upload">>>>,
           <<"sha256_digest", hash.hex>>,
           <<"protocol_version", <<"1">>>>,
           <<"metadata_version", m.metadata_version>>,
           <<"name", m.name>>,
           <<"version", m.version>>,
           <<"filetype", filetype(filename)>>,
           <<"pyversion", pyversion(filename)>> >>
        \o add_option("summary", m.summary)
        \o add_option("description", m.description)
        \o add_option("description_content_type", m.description_content_type)
        \o add_option("author", m.author)
        \o add_option("author_email", m.author_email)
        \o add_option("maintainer", m.maintainer)
        \o add_option("maintainer_email", m.maintainer_email)
        \o add_option("license", m.license)
        \o add_option("keywords", m.keywords)
        \o add_option("home_page", m.home_page)
        \o add_option("download_url", m.download_url)
        \o << <<"requires_python", unwrap_or_empty(m.requires_python)>> >>
        \o add_vec("classifiers", m.classifiers)
        \o add_vec("platform", m.platforms)
        \o add_vec("requires_dist", m.requires_dist)
        \o add_vec("provides_dist", m.provides_dist)
        \o add_vec("obsoletes_dist", m.obsoletes_dist)
        \o add_vec("requires_external", m.requires_external)
        \o add_vec("project_urls", m.project_urls))

(* The errors of source_dist_pkg_info, and of File::open and
   read_metadata_async_seek on a wheel *)
SdistReadErrors ==
    {PrepareIo, MissingPkgInfo, PrepareRead(to_string_lossy(PkgInfoPath)),
     MultiplePkgInfo(<<"pkg-1.0", Sep, PKG_INFO, ", ", "other", Sep, PKG_INFO>>)}
WheelReadErrors == {PrepareIo, PrepareMetadata}

(* The distributions and the metadata form_metadata is run on *)
SdistTarGz == SourceDistFilename("pkg", "1.0", "tar.gz")
SdistZip == SourceDistFilename("pkg", "1.0", "zip")
WheelPy3 == WheelFilename("pkg", "1.0", <<"py3">>)
WheelPy2Py3 == WheelFilename("pkg", "1.0", <<"py2", "py3">>)
DistFilenames == {SdistTarGz, SdistZip, WheelPy3, WheelPy2Py3}
Sha256Hex == <<"<sha256 hex digest>">>

OptionValues == {<<>>, <<"x">>}
VecValues == {<<"x">>, <<"y">>}
OptionsOfSize(n) ==
    UNION {[S -> OptionValues] : S \in {T \in SUBSET OptionNames : Cardinality(T) = n}}
VecItems == {<<k, v>> : k \in 1..Len(VecNames), v \in VecValues}
VecsUpTo(n) ==
    {r \in SeqsUpTo(VecItems, n) :
        \A i, j \in 1..Len(r) : i < j => r[i][1] <= r[j][1]}
RECURSIVE VecOf(_, _)
VecOf(r, k) ==
    IF r = <<>> THEN <<>>
    ELSE (IF r[1][1] = k THEN <<r[1][2]>> ELSE <<>>) \o VecOf(Tail(r), k)
MakeMetadata(o, r) ==
    Metadata23(<<"2.1">>, <<"pkg">>, <<"1.0">>,
               [f \in OptionNames |-> IF f \in DOMAIN o THEN Some(o[f]) ELSE None],
               [f \in {VecNames[k] : k \in 1..Len(VecNames)} |->
                    VecOf(r, CHOOSE k \in 1..Len(VecNames) : VecNames[k] = f)])
Metadatas ==
    UNION {{MakeMetadata(o, r) : o \in OptionsOfSize(n), r \in VecsUpTo(MaxMetadata - n)} :
             n \in 0..MaxMetadata}
SomeMetadata ==
    MakeMetadata([f \in {"summary"} |-> <<"x">>], <<<<1, <<"x">>>>>>)

FormIdle ==
    /\ fm_filename = SdistTarGz
    /\ fm_hash = HashErr
    /\ fm_contents = PrepareIo
    /\ fm_parsed = ParseErr
    /\ fm_pc = "idle"
    /\ fm_result = FormPending

(* form_metadata(file, filename) *)
FormMetadata ==
    /\ fm_pc = "call"
    /\ fm_result' = form_metadata(fm_filename, fm_hash, fm_contents, fm_parsed)
    /\ fm_pc' = "done"
    /\ UNCHANGED <<fm_filename, fm_hash, fm_contents, fm_parsed,
                   respVars, extractVars, discoverVars, pkgInfoVars, uploadVars>>

-----------------------------------------------------------------------------
(* build_request: the URL and the headers of the request *)

(* Credentials are text whose atoms are single characters *)
AsciiTable ==
    << <<"!", 33>>, <<"%", 37>>, <<"0", 48>>, <<"1", 49>>, <<"3", 51>>,
       <<"4", 52>>, <<":", 58>>, <<"@", 64>>, <<"A", 65>>, <<"F", 70>>,
       <<"R", 82>>, <<"S", 83>>, <<"a", 97>>, <<"b", 98>>, <<"e", 101>>,
       <<"f", 102>>, <<"i", 105>>, <<"r", 114>>, <<"s", 115>> >>
as_bytes(text) ==
    [i \in 1..Len(text) |->
        AsciiTable[CHOOSE k \in 1..Len(AsciiTable) : AsciiTable[k][1] = text[i]][2]]

(* base64::prelude::BASE64_STANDARD *)
Base64Alphabet ==
    <<"A", "B", "C", "D", "E", "F", "G", "H", "I", "J", "K", "L", "M", "N", "O",
      "P", "Q", "R", "S", "T", "U", "V", "W", "X", "Y", "Z", "a", "b", "c", "d",
      "e", "f", "g", "h", "i", "j", "k", "l", "m", "n", "o", "p", "q", "r", "s",
      "t", "u", "v", "w", "x", "y", "z", "0", "1", "2", "3", "4", "5", "6", "7",
      "8", "9", "+", "/">>
RECURSIVE base64_encode(_)
base64_encode(bytes) ==
    LET sextet(n) == Base64Alphabet[n + 1] IN
    IF bytes = <<>> THEN <<>>
    ELSE IF Len(bytes) = 1
    THEN <<sextet(bytes[1] \div 4), sextet((bytes[1] % 4) * 16), "=", "=">>
    ELSE IF Len(bytes) = 2
    THEN <<sextet(bytes[1] \div 4),
           sextet((bytes[1] % 4) * 16 + bytes[2] \div 16),
           sextet((bytes[2] % 16) * 4), "=">>
    ELSE <<sextet(bytes[1] \div 4),
           sextet((bytes[1] % 4) * 16 + bytes[2] \div 16),
           sextet((bytes[2] % 16) * 4 + bytes[3] \div 64),
           sextet(bytes[3] % 64)>>
         \o base64_encode(SubSeq(bytes, 4, Len(bytes)))

Basic == <<"B", "a", "s", "i", "c", " ">>

(* url::Url: `base` is the URL without its user-info; `username` and
   `password` are the user-info as the URL stores it, percent-encoded *)
Url(base, username, password) ==
    [base |-> base, username |-> username, password |-> password]

(* Url::parse of a registry URL that has no user-info *)
url_parse(text) == Url(text, <<>>, None)

(* percent-encoding of user-info: of the characters above, "@" and ":" cannot
   stand in user-info as they are and are encoded *)
RECURSIVE percent_encode(_)
percent_encode(text) ==
    IF text = <<>> THEN <<>>
    ELSE (CASE text[1] = "@" -> <<"%", "4", "0">>
            [] text[1] = ":" -> <<"%", "3", "A">>
            [] OTHER -> <<text[1]>>)
         \o percent_encode(Tail(text))

(* Url::set_username *)
set_username(url, username) ==
    [url EXCEPT !.username = percent_encode(username)]

request_url_never_user_info(reg, username, password) == reg

(* lines 428-441: the URL given to the client *)
request_url(reg, username, password) ==
    IF is_some(username)
    THEN IF ~is_some(password)
         THEN set_username(reg, unwrap(username))
         ELSE reg
    ELSE reg

(* A request as build_request makes it: the URL it gives to the client, the
   headers in the order they are added, and the parts of its multipart form *)
Request(url, headers, form) == [url |-> url, headers |-> headers, form |-> form]
NoRequest == Request(Url("", <<>>, None), <<>>, <<>>)

(* client.client().post(url): a request for the URL, as yet without headers
   and without a body *)
post(url) == Request(url, <<>>, <<>>)

(* .multipart(form): the Content-Type header, with the form's boundary *)
MultipartContentType == <<"multipart/form-data; boundary=", "[...]">>

Accept == <<"application/json;q=0.9, text/plain;q=0.8, text/html;q=0.7">>

(* A call the Reporter received *)
DownloadStart(name, size) == [kind |-> "on_download_start", name |-> name, n |-> size]
DownloadProgress(inc) == [kind |-> "on_download_progress", name |-> <<>>, n |-> inc]

(* Result<RequestBuilder, PublishPrepareError>, with the state of the file
   and the calls the Reporter received *)
Built(kind, request, open, events) ==
    [kind |-> kind, request |-> request, open |-> open, events |-> events]

build_request_start_before_size(filename, size, reg, username, password, form, open_ok, size_ok) ==
    IF ~open_ok THEN Built("Err", NoRequest, "open_failed", <<>>)
    ELSE Built("Err", NoRequest, "size_failed", <<DownloadStart(filename, size)>>)

(* build_request; `open_ok` and `size_ok` are whether File::open and
   file.metadata() succeed.  The argument Some(file.metadata().await?.len())
   is evaluated before on_download_start is called. *)
build_request(filename, size, reg, username, password, form, open_ok, size_ok) ==
    IF ~open_ok THEN Built("Err", NoRequest, "open_failed", <<>>)
    ELSE IF ~size_ok THEN Built("Err", NoRequest, "size_failed", <<>>)
    ELSE
    LET posted == post(request_url(url_parse(reg), username, password))
        parts == form \o << <<"content", filename>> >>
        headers ==
            posted.headers
                \o << <<"content-type", MultipartContentType>> >>
                \o << <<"accept", Accept>> >>
                \o (IF is_some(username) /\ is_some(password)
                    THEN << <<"authorization",
                              Basic \o base64_encode(as_bytes(
                                  unwrap(username) \o <<":">> \o unwrap(password)))>> >>
                    ELSE <<>>)
    IN  Built("Ok", Request(posted.url, headers, parts), "ok",
              <<DownloadStart(filename, size)>>)

-----------------------------------------------------------------------------
(* upload: one file to one registry *)

(* Result<bool, PublishError> *)
UploadOk(b) ==
    [kind |-> "Ok", value |-> b, path |-> "", registry |-> "",
     prepare |-> NoPrepareError, send |-> NoResult]
PublishPrepare(path, err) ==
    [kind |-> "PublishPrepare", value |-> FALSE, path |-> path, registry |-> "",
     prepare |-> err, send |-> NoResult]
PublishSend_without_registry(path, reg, err) ==
    [kind |-> "PublishSend", value |-> FALSE, path |-> path, registry |-> "",
     prepare |-> NoPrepareError, send |-> err]
PublishSend(path, reg, err) ==
    [kind |-> "PublishSend", value |-> FALSE, path |-> path, registry |-> reg,
     prepare |-> NoPrepareError, send |-> err]
UploadPending ==
    [kind |-> "Pending", value |-> FALSE, path |-> "", registry |-> "",
     prepare |-> NoPrepareError, send |-> NoResult]

(* PublishSendError::ReqwestMiddleware *)
ReqwestMiddleware ==
    [kind |-> "ReqwestMiddleware", value |-> FALSE, status |-> 0,
     message |-> <<>>, url |-> "", source |-> "error sending request"]

upload_result_failure_as_exists(file, reg, handled) ==
    IF handled.kind = "Ok" THEN UploadOk(handled.value) ELSE UploadOk(FALSE)

(* lines 246-248: the result of handle_response, its error wrapped *)
upload_result(file, reg, handled) ==
    IF handled.kind = "Ok" THEN UploadOk(handled.value)
    ELSE PublishSend(file, reg, handled)

UploadFiles == {"dist/pkg-1.0.tar.gz", "dist/pkg-1.0.zip", "dist/pkg-1.0-py3-none-any.whl"}
filename_of(file) ==
    CASE file = "dist/pkg-1.0.tar.gz" -> SdistTarGz
      [] file = "dist/pkg-1.0.zip" -> SdistZip
      [] OTHER -> WheelPy3
Usernames ==
    {None, Some(<<"f", "e", "r", "r", "i", "s">>), Some(<<"a", "@", "b">>),
     Some(<<>>)}
Passwords == {None, Some(<<"F", "3", "R", "R", "!", "S">>)}
UploadResponses ==
    [url : Urls, status : {200, 400, 403, 409, 500},
     content_type : {None, Some(ApplicationJson)},
     body : {<<>>, OverwriteArtifact, AlreadyBeenTaken,
             Render(DObj(<<Item(KeyCode, DStr(UpdatingAsset))>>))}]

UploadIdle ==
    /\ up_file = ""
    /\ up_size = 0
    /\ up_username = None
    /\ up_password = None
    /\ up_pc = "idle"
    /\ up_steps = <<>>
    /\ up_open = "unopened"
    /\ up_request = NoRequest
    /\ rp_events = <<>>
    /\ up_posts = 0
    /\ up_streamed = 0
    /\ up_result = UploadPending

(* hash_file(file)?, the first step of form_metadata *)
HashFile ==
    /\ up_pc = "hash"
    /\ \E hash \in {HashOk(Sha256Hex), HashErr} :
        /\ fm_hash' = hash
        /\ IF hash.kind = "Ok"
           THEN up_pc' = "metadata" /\ UNCHANGED up_result
           ELSE up_pc' = "done" /\ up_result' = PublishPrepare(up_file, PrepareIo)
    /\ up_steps' = Append(up_steps, "hash")
    /\ UNCHANGED <<fm_filename, fm_contents, fm_parsed, fm_pc, fm_result,
                   up_file, up_size, up_username, up_password, up_open,
                   up_request, rp_events, up_posts, up_streamed,
                   respVars, extractVars, discoverVars, pkgInfoVars>>

(* metadata(file, filename).await?, the second step of form_metadata *)
ExtractMetadata ==
    /\ up_pc = "metadata"
    /\ \E contents \in {PkgInfoOk(Data1)} \cup
                        (IF fm_filename.kind = "SourceDistFilename"
                         THEN SdistReadErrors ELSE WheelReadErrors),
          parsed \in {ParseOk(SomeMetadata), ParseErr} :
        /\ fm_contents' = contents
        /\ fm_parsed' = parsed
        /\ LET md == metadata(fm_filename, contents, parsed) IN
            IF md.kind = "Ok"
            THEN up_pc' = "form" /\ UNCHANGED up_result
            ELSE up_pc' = "done" /\ up_result' = PublishPrepare(up_file, md.err)
    /\ up_steps' = Append(up_steps, "metadata")
    /\ UNCHANGED <<fm_filename, fm_hash, fm_pc, fm_result,
                   up_file, up_size, up_username, up_password, up_open,
                   up_request, rp_events, up_posts, up_streamed,
                   respVars, extractVars, discoverVars, pkgInfoVars>>

(* the rest of form_metadata: the form is built *)
BuildForm ==
    /\ up_pc = "form"
    /\ fm_result' = form_metadata(fm_filename, fm_hash, fm_contents, fm_parsed)
    /\ fm_pc' = "done"
    /\ up_pc' = "request"
    /\ up_steps' = Append(up_steps, "form")
    /\ UNCHANGED <<fm_filename, fm_hash, fm_contents, fm_parsed,
                   up_file, up_size, up_username, up_password, up_open,
                   up_request, rp_events, up_posts, up_streamed, up_result,
                   respVars, extractVars, discoverVars, pkgInfoVars>>

(* build_request(..).await.map_err(PublishPrepare)? *)
BuildRequest ==
    /\ up_pc = "request"
    /\ \E open_ok, size_ok \in BOOLEAN :
        LET built == build_request(fm_filename, up_size, registry, up_username,
                                   up_password, fm_result.form, open_ok, size_ok)
        IN
        /\ up_open' = built.open
        /\ rp_events' = rp_events \o built.events
        /\ up_request' = built.request
        /\ IF built.kind = "Ok"
           THEN up_pc' = "send" /\ UNCHANGED up_result
           ELSE up_pc' = "done" /\ up_result' = PublishPrepare(up_file, PrepareIo)
    /\ up_steps' = Append(up_steps, "request")
    /\ UNCHANGED <<up_file, up_size, up_username, up_password, up_posts,
                   up_streamed, formVars,
                   respVars, extractVars, discoverVars, pkgInfoVars>>

(* request.send(): the POST goes out *)
Send ==
    /\ up_pc = "send"
    /\ up_posts' = up_posts + 1
    /\ up_pc' = "sending"
    /\ up_steps' = Append(up_steps, "send")
    /\ UNCHANGED <<up_file, up_size, up_username, up_password, up_open,
                   up_request, rp_events, up_streamed, up_result, formVars,
                   respVars, extractVars, discoverVars, pkgInfoVars>>

(* the body is read from the file through the ProgressReader, one chunk *)
StreamChunk ==
    /\ up_pc = "sending"
    /\ up_streamed < up_size
    /\ up_streamed' = up_streamed + 1
    /\ rp_events' = Append(rp_events, DownloadProgress(1))
    /\ UNCHANGED <<up_file, up_size, up_username, up_password, up_pc, up_steps,
                   up_open, up_request, up_posts, up_result, formVars,
                   respVars, extractVars, discoverVars, pkgInfoVars>>

(* request.send() fails: map_err(PublishSend)? *)
SendFails ==
    /\ up_pc = "sending"
    /\ up_result' = PublishSend(up_file, registry, ReqwestMiddleware)
    /\ up_pc' = "done"
    /\ UNCHANGED <<up_file, up_size, up_username, up_password, up_steps,
                   up_open, up_request, rp_events, up_posts, up_streamed,
                   formVars, respVars, extractVars, discoverVars, pkgInfoVars>>

(* request.send() returns the response *)
ReceiveResponse ==
    /\ up_pc = "sending"
    /\ response' \in UploadResponses
    /\ hr_pc' = "received"
    /\ up_pc' = "interpret"
    /\ UNCHANGED <<registry, hr_trace, hr_body_io, hr_read, hr_result,
                   up_file, up_size, up_username, up_password, up_steps,
                   up_open, up_request, rp_events, up_posts, up_streamed,
                   up_result, formVars, extractVars, discoverVars, pkgInfoVars>>

(* handle_response has returned: upload returns its result *)
UploadReturn ==
    /\ up_pc = "interpret"
    /\ hr_pc = "done"
    /\ up_result' = upload_result(up_file, registry, hr_result)
    /\ up_pc' = "done"
    /\ up_steps' = Append(up_steps, "interpret")
    /\ UNCHANGED <<up_file, up_size, up_username, up_password, up_open,
                   up_request, rp_events, up_posts, up_streamed, formVars,
                   respVars, extractVars, discoverVars, pkgInfoVars>>

PrepIdle == PkgInfoIdle /\ FormIdle /\ UploadIdle

-----------------------------------------------------------------------------
(* Specifications *)

(* handle_response over every response *)
InitResponse ==
    /\ registry \in Urls
    /\ response \in Responses
    /\ hr_pc = "received"
    /\ hr_trace = FALSE
    /\ hr_body_io = ReadOk
    /\ hr_read = "not_read"
    /\ hr_result = NoResult
    /\ ExtractIdle
    /\ DiscoverIdle
    /\ PrepIdle
NextResponse == HandleResponse
SpecResponse == InitResponse /\ [][NextResponse]_vars

(* extract_error_message over JSON documents, damaged documents and text *)
InitExtract ==
    /\ \/ \E d \in Docs, how \in Perturbations :
            /\ ex_doc = (IF how = "none" THEN d ELSE NoDoc)
            /\ ex_body = Perturb(Render(d), how)
       \/ \E text \in TextBodies :
            /\ ex_doc = NoDoc
            /\ ex_body = from_utf8_lossy(text)
    /\ ex_content_type \in ContentTypes
    /\ ex_pc = "call"
    /\ ex_result = <<>>
    /\ ResponseIdle
    /\ DiscoverIdle
    /\ PrepIdle
NextExtract == ExtractErrorMessage
SpecExtract == InitExtract /\ [][NextExtract]_vars

(* files_for_publishing over every list of patterns *)
InitDiscover ==
    /\ paths \in SeqsUpTo(Patterns, MaxPatterns)
    /\ fp_pc = "paths"
    /\ fp_i = 1
    /\ fp_iter = <<>>
    /\ fp_yielded = <<>>
    /\ seen = {}
    /\ files = <<>>
    /\ fp_stat = {}
    /\ fp_opened = {}
    /\ fp_result = Continue
    /\ ResponseIdle
    /\ ExtractIdle
    /\ PrepIdle
NextDiscover == StartGlob \/ VisitDist \/ EndGlob \/ ReturnFiles
SpecDiscover == InitDiscover /\ [][NextDiscover]_vars

-----------------------------------------------------------------------------
(* Claims about handle_response (SpecResponse) *)
HrDone == hr_pc = "done"
NotRedirected == response.url = registry
UploadError == from_utf8_lossy(response.body)
ExtractedMessage == extract_error_message(UploadError, content_type_of(response))
KnownPhrase400 ==
    contains(UploadError, UpdatingAsset) \/ contains(UploadError, AlreadyBeenTaken)

(* C1: a response whose final URL differs from the registry URL yields
   RedirectError carrying the response's URL, whatever its status and body;
   it never yields NewlyUploaded or AlreadyExists. *)
C1_RedirectAlwaysFails ==
    (HrDone /\ response.url # registry)
        => /\ hr_result = RedirectError(response.url)
           /\ hr_result.kind # "Ok"

C1_Witness ==
    /\ HrDone
    /\ response.url # registry
    /\ is_success(response.status)
    /\ hr_result = RedirectError(response.url)

(* C2: a 2xx response from the registry URL yields NewlyUploaded, whatever the
   body is and whether or not it could be read. *)
C2_SuccessIgnoresBody ==
    (HrDone /\ NotRedirected /\ is_success(response.status))
        => hr_result = NewlyUploaded

C2_Witness ==
    /\ HrDone
    /\ NotRedirected
    /\ response.status = 204
    /\ hr_trace
    /\ hr_read = "failed"
    /\ hr_result = NewlyUploaded

(* C3, as claimed: a 409 response that was not redirected always yields
   AlreadyExists. *)
C3_Original ==
    (HrDone /\ NotRedirected /\ response.status = 409)
        => hr_result = AlreadyExists

(* C3, amended: a 409 response that was not redirected and whose body could be
   read yields AlreadyExists, for every body and content type. *)
C3_ConflictWithBody ==
    (HrDone /\ NotRedirected /\ response.status = 409 /\ hr_body_io.ok)
        => hr_result = AlreadyExists

C3_Witness ==
    /\ HrDone
    /\ NotRedirected
    /\ response.status = 409
    /\ hr_read = "ok"
    /\ response.content_type = Some(ApplicationJson)
    /\ response.body # <<>>
    /\ hr_result = AlreadyExists

(* C4: a 403 response, not redirected, with a readable body yields
   AlreadyExists when the body contains "overwrite artifact", and otherwise
   PermissionDenied with status 403 and the extracted message; the phrases of
   status 400 do not count. *)
C4_Forbidden ==
    (HrDone /\ NotRedirected /\ response.status = 403 /\ hr_body_io.ok)
        => hr_result = (IF contains(UploadError, OverwriteArtifact)
                        THEN AlreadyExists
                        ELSE PermissionDenied(403, ExtractedMessage))

C4_Witness ==
    /\ HrDone
    /\ NotRedirected
    /\ response.status = 403
    /\ KnownPhrase400
    /\ ~contains(UploadError, OverwriteArtifact)
    /\ hr_result.kind = "PermissionDenied"

(* C5: a 400 response, not redirected, with a readable body that contains
   "updating asset" or "already been taken" yields AlreadyExists, whatever the
   content type and whatever message extraction would return. *)
C5_BadRequestKnownPhrase ==
    (HrDone /\ NotRedirected /\ response.status = 400 /\ hr_body_io.ok
        /\ KnownPhrase400)
        => hr_result = AlreadyExists

C5_Witness ==
    /\ HrDone
    /\ NotRedirected
    /\ response.status = 400
    /\ contains(UploadError, AlreadyBeenTaken)
    /\ response.content_type = Some(ApplicationJson)
    /\ ExtractedMessage = StrX
    /\ hr_result = AlreadyExists

(* C6: any other non-2xx response, not redirected, with a readable body (not
   403, not 409, not 400 with a known phrase) yields Status carrying that
   status code and the extracted message. *)
C6_OtherStatus ==
    (HrDone /\ NotRedirected /\ hr_body_io.ok
        /\ ~is_success(response.status)
        /\ response.status \notin {403, 409}
        /\ ~(response.status = 400 /\ KnownPhrase400))
        => hr_result = Status(response.status, ExtractedMessage)

C6_Witness ==
    /\ HrDone
    /\ NotRedirected
    /\ response.status = 400
    /\ contains(UploadError, OverwriteArtifact)
    /\ hr_result.kind = "Status"
    /\ hr_result.status = 400

(* C8: a non-2xx response, not redirected, whose body cannot be read yields
   StatusNoBody carrying the status code and the read error, whatever the
   status; a failed read never yields AlreadyExists or another outcome. *)
C8_UnreadableBody ==
    /\ (HrDone /\ NotRedirected /\ ~is_success(response.status) /\ ~hr_body_io.ok)
        => hr_result = StatusNoBody(response.status, hr_body_io.err)
    /\ (HrDone /\ hr_read = "failed" /\ ~is_success(response.status))
        => hr_result.kind = "StatusNoBody"

C8_Witness ==
    /\ HrDone
    /\ NotRedirected
    /\ response.status = 409
    /\ hr_read = "failed"
    /\ hr_result = StatusNoBody(409, hr_body_io.err)

-----------------------------------------------------------------------------
(* Claims about extract_error_message (SpecExtract) *)
CodeFields(doc) ==
    IF doc.t = "obj"
    THEN {i \in 1..Len(doc.items) : doc.items[i].key = KeyCode}
    ELSE {}
HasStringCode(doc) == \E i \in CodeFields(doc) : doc.items[i].val.t = "str"
CodeValue(doc) == doc.items[CHOOSE i \in CodeFields(doc) : TRUE].val.s

(* C7, as claimed: the result is the value of the body's `code` field exactly
   when the content type is `application/json` and the body is a JSON object
   with a string `code` field, and the raw body in every other case.  (Objects
   that repeat `code` are left out: the claim does not say what they are.) *)
C7_Original ==
    (ex_pc = "done" /\ Cardinality(CodeFields(ex_doc)) <= 1)
        => ex_result = (IF ex_content_type = Some(ApplicationJson)
                           /\ HasStringCode(ex_doc)
                        THEN CodeValue(ex_doc)
                        ELSE ex_body)

-----------------------------------------------------------------------------
(* Claims about files_for_publishing (SpecDiscover) *)
FpDone == fp_pc = "done"
NameParses(path) ==
    /\ is_some(file_name(path))
    /\ is_some(try_from_normalized_filename(unwrap(file_name(path))))
MatchesNoFile(pattern) ==
    /\ pattern_is_valid(pattern)
    /\ \A k \in 1..Len(glob(pattern)) :
        glob(pattern)[k].ok /\ ~is_file(glob(pattern)[k].path)

(* C9, as claimed: when every pattern is valid and the patterns together match
   no file (also when there is no pattern), discovery fails with NoFiles. *)
C9_Original ==
    (FpDone /\ \A i \in 1..Len(paths) : MatchesNoFile(paths[i]))
        => fp_result = NoFiles

(* C10, as claimed: every matched path whose file name does not parse makes
   discovery return InvalidFilename naming it, with no file I/O on the path. *)
C10_Original ==
    \A i \in 1..Len(fp_yielded) :
        (fp_yielded[i].ok /\ ~NameParses(fp_yielded[i].path))
            => /\ fp_result = InvalidFilename(fp_yielded[i].path)
               /\ fp_yielded[i].path \notin fp_stat \cup fp_opened

(* The i-th glob result is a regular file, not yielded before, whose name is
   UTF-8 and does not parse *)
Rejectable(i) ==
    /\ fp_yielded[i].ok
    /\ is_file(fp_yielded[i].path)
    /\ \A j \in 1..(i - 1) : fp_yielded[j].path # fp_yielded[i].path
    /\ is_some(file_name(fp_yielded[i].path))
    /\ ~NameParses(fp_yielded[i].path)

(* C10, amended: a matched path that is a regular file, was not matched
   before, and has a UTF-8 file name that does not parse ends discovery there
   with InvalidFilename naming it, and the files collected so far are not
   returned; any other matched path whose name does not parse (a directory, a
   name that is not UTF-8) is skipped.  The rejected path's metadata is queried
   (is_file) before the name check; the file is never opened. *)
C10_InvalidFilename ==
    \A i \in 1..Len(fp_yielded) :
        /\ Rejectable(i)
            => /\ i = Len(fp_yielded)
               /\ FpDone
               /\ fp_result = InvalidFilename(fp_yielded[i].path)
               /\ fp_result.files = <<>>
               /\ fp_yielded[i].path \in fp_stat
               /\ fp_yielded[i].path \notin fp_opened
        /\ (fp_yielded[i].ok /\ ~NameParses(fp_yielded[i].path) /\ ~Rejectable(i))
            => fp_result # InvalidFilename(fp_yielded[i].path)

C10_Witness ==
    /\ FpDone
    /\ fp_result.kind = "InvalidFilename"
    /\ files # <<>>
    /\ fp_i = 2
    /\ \E i \in 1..Len(fp_yielded) : ~is_file(fp_yielded[i].path)

FirstYield(path) ==
    SetMin({k \in 1..Len(fp_yielded) : fp_yielded[k].path = path})

(* C11, as claimed: the returned list holds only regular files, no two of its
   entries denote the same file (also when a file is matched by several
   patterns or under differently spelled paths), and the entries stand in the
   order of their first match. *)
C11_Original ==
    (FpDone /\ fp_result.kind = "Ok")
        => /\ \A i \in 1..Len(fp_result.files) : is_file(fp_result.files[i].path)
           /\ \A i, j \in 1..Len(fp_result.files) :
                i < j =>
                    /\ canonicalize(fp_result.files[i].path)
                         # canonicalize(fp_result.files[j].path)
                    /\ FirstYield(fp_result.files[i].path)
                         < FirstYield(fp_result.files[j].path)

-----------------------------------------------------------------------------
(* source_dist_pkg_info over every archive *)
InitPkgInfo ==
    /\ pi_archive \in SeqsUpTo(Entries, MaxEntries)
    /\ pi_open \in {"ok", "err"}
    /\ pi_pc = "open"
    /\ pi_i = 1
    /\ pkg_infos = <<>>
    /\ pi_result = PkgInfoPending
    /\ ResponseIdle
    /\ ExtractIdle
    /\ DiscoverIdle
    /\ FormIdle
    /\ UploadIdle
NextPkgInfo == OpenArchive \/ VisitEntry \/ CollectPkgInfos
SpecPkgInfo == InitPkgInfo /\ [][NextPkgInfo]_vars

(* Claims about source_dist_pkg_info (SpecPkgInfo) *)
PiDone == pi_pc = "done"
PiReadThrough == PiDone /\ pi_result.kind \notin {"Io", "Read"}
Selected ==
    {i \in 1..Len(pi_archive) :
        LET c == components(pi_archive[i].path) IN
            Len(c) = 2 /\ c[2] = "PKG-INFO"}
RECURSIVE SelectedPaths(_)
SelectedPaths(i) ==
    IF i > Len(pi_archive) THEN <<>>
    ELSE (IF i \in Selected THEN <<to_string_lossy(pi_archive[i].path)>> ELSE <<>>)
            \o SelectedPaths(i + 1)

(* C12: of an archive that is read through without an I/O error, exactly the
   entries whose path has two components, the second being PKG-INFO, are
   selected; one selected entry yields its bytes, none yields MissingPkgInfo,
   and two or more yield MultiplePkgInfo naming all selected paths in archive
   order, joined by ", ". *)
C12_PkgInfoSelection ==
    PiReadThrough =>
        /\ Cardinality(Selected) = 1 =>
             pi_result = PkgInfoOk(pi_archive[CHOOSE i \in Selected : TRUE].data)
        /\ Cardinality(Selected) = 0 => pi_result = MissingPkgInfo
        /\ Cardinality(Selected) >= 2 =>
             pi_result = MultiplePkgInfo(join(SelectedPaths(1), <<", ">>))

(* three PKG-INFO files among other entries *)
C12_Witness ==
    /\ PiReadThrough
    /\ Cardinality(Selected) >= 2
    /\ Cardinality(Selected) < Len(pi_archive)
    /\ pi_result.kind = "MultiplePkgInfo"

-----------------------------------------------------------------------------
(* form_metadata over every distribution kind and every Metadata23, and over
   the failures of hashing, reading and parsing *)
InitForm ==
    /\ fm_filename \in DistFilenames
    /\ \/ /\ fm_hash = HashOk(Sha256Hex)
          /\ fm_contents = PkgInfoOk(Data1)
          /\ fm_parsed \in {ParseOk(m) : m \in Metadatas}
          /\ fm_filename # SdistZip
       \/ /\ fm_hash \in {HashOk(Sha256Hex), HashErr}
          /\ \/ fm_contents = PkgInfoOk(Data1)
             \/ fm_filename.kind = "SourceDistFilename" /\ fm_contents \in SdistReadErrors
             \/ fm_filename.kind = "WheelFilename" /\ fm_contents \in WheelReadErrors
          /\ fm_parsed \in {ParseOk(SomeMetadata), ParseErr}
    /\ fm_pc = "call"
    /\ fm_result = FormPending
    /\ ResponseIdle
    /\ ExtractIdle
    /\ DiscoverIdle
    /\ PkgInfoIdle
    /\ UploadIdle
NextForm == FormMetadata
SpecForm == InitForm /\ [][NextForm]_vars

(* Claims about form_metadata (SpecForm) *)
FmOk == fm_pc = "done" /\ fm_result.kind = "Ok"
FormEntries(name) ==
    {i \in 1..Len(fm_result.form) : fm_result.form[i][1] = name}
ClaimedOptionalScalars ==
    <<"summary", "description", "description_content_type", "author",
      "author_email", "maintainer", "maintainer_email", "license", "keywords",
      "home_page", "download_url">>

(* C13: each optional scalar field has a form entry exactly when the metadata
   has the field (then one entry, with the field's value), and the form has
   exactly one requires_python entry, whose value is the metadata's
   requires_python or the empty string when the metadata has none. *)
C13_OptionalFields ==
    FmOk =>
        /\ \A k \in 1..Len(ClaimedOptionalScalars) :
            LET f == ClaimedOptionalScalars[k]
                value == fm_parsed.metadata[f] IN
            IF is_some(value)
            THEN /\ Cardinality(FormEntries(f)) = 1
                 /\ \A i \in FormEntries(f) : fm_result.form[i][2] = unwrap(value)
            ELSE FormEntries(f) = {}
        /\ Cardinality(FormEntries("requires_python")) = 1
        /\ \A i \in FormEntries("requires_python") :
            fm_result.form[i][2] =
                (IF is_some(fm_parsed.metadata.requires_python)
                 THEN unwrap(fm_parsed.metadata.requires_python)
                 ELSE <<>>)

(* a form with a present and an absent optional field, without requires_python *)
C13_Witness ==
    /\ FmOk
    /\ is_some(fm_parsed.metadata.summary)
    /\ ~is_some(fm_parsed.metadata.author)
    /\ ~is_some(fm_parsed.metadata.requires_python)
    /\ FormEntries("summary") # {}
    /\ \E i \in FormEntries("requires_python") : fm_result.form[i][2] = <<>>

ClaimedFixed ==
    <<":action", "sha256_digest", "protocol_version", "metadata_version",
      "name", "version", "filetype", "pyversion">>
(* form field name, and the metadata list it is filled from *)
ClaimedRepeated ==
    << <<"classifiers", "classifiers">>, <<"platform", "platforms">>,
       <<"requires_dist", "requires_dist">>, <<"provides_dist", "provides_dist">>,
       <<"obsoletes_dist", "obsoletes_dist">>,
       <<"requires_external", "requires_external">>,
       <<"project_urls", "project_urls">> >>
RECURSIVE ClaimedOptionalEntries(_)
ClaimedOptionalEntries(k) ==
    IF k > Len(ClaimedOptionalScalars) THEN <<>>
    ELSE LET f == ClaimedOptionalScalars[k]
             value == fm_parsed.metadata[f] IN
         (IF is_some(value) THEN << <<f, unwrap(value)>> >> ELSE <<>>)
            \o ClaimedOptionalEntries(k + 1)
RECURSIVE ClaimedRepeatedEntries(_)
ClaimedRepeatedEntries(k) ==
    IF k > Len(ClaimedRepeated) THEN <<>>
    ELSE LET values == fm_parsed.metadata[ClaimedRepeated[k][2]] IN
         [i \in 1..Len(values) |-> <<ClaimedRepeated[k][1], values[i]>>]
            \o ClaimedRepeatedEntries(k + 1)
ClaimedPyversion ==
    IF fm_filename.kind = "WheelFilename"
    THEN [i \in 1..(2 * Len(fm_filename.python_tag) - 1) |->
            IF i % 2 = 1 THEN fm_filename.python_tag[(i + 1) \div 2] ELSE "."]
    ELSE <<"source">>

(* C14: the form is the eight fixed fields in the claimed order, pyversion
   being the wheel's Python tags joined with "." or "source"; then the present
   optional scalar fields in their listed order; then requires_python; then
   the repeated fields in the claimed order, one entry per value of the
   metadata list, in the list's order. *)
C14_FormSequence ==
    FmOk =>
        LET form == fm_result.form
            requires_python ==
                IF is_some(fm_parsed.metadata.requires_python)
                THEN unwrap(fm_parsed.metadata.requires_python) ELSE <<>>
        IN
        /\ Len(form) >= Len(ClaimedFixed)
        /\ \A k \in 1..Len(ClaimedFixed) : form[k][1] = ClaimedFixed[k]
        /\ form[8][2] = ClaimedPyversion
        /\ SubSeq(form, 9, Len(form)) =
                ClaimedOptionalEntries(1)
                    \o << <<"requires_python", requires_python>> >>
                    \o ClaimedRepeatedEntries(1)

(* a wheel with two Python tags, an optional field, and two different
   platforms in the order "y", "x" *)
C14_Witness ==
    /\ FmOk
    /\ fm_filename = WheelPy2Py3
    /\ fm_result.form[8] = <<"pyversion", <<"py2", ".", "py3">>>>
    /\ \E k \in 1..Len(ClaimedOptionalScalars) :
            is_some(fm_parsed.metadata[ClaimedOptionalScalars[k]])
    /\ fm_parsed.metadata.platforms = << <<"y">>, <<"x">> >>
    /\ Len(fm_result.form) = 12
    /\ fm_result.form[11] = <<"platform", <<"y">>>>
    /\ fm_result.form[12] = <<"platform", <<"x">>>>

-----------------------------------------------------------------------------
(* upload of every kind of file, with every combination of credentials *)
InitUpload ==
    /\ up_file \in UploadFiles
    /\ fm_filename = filename_of(up_file)
    /\ up_size \in 0..MaxChunks
    /\ registry \in Urls
    /\ up_username \in Usernames
    /\ up_password \in Passwords
    /\ up_pc = "hash"
    /\ up_steps = <<>>
    /\ up_open = "unopened"
    /\ up_request = NoRequest
    /\ rp_events = <<>>
    /\ up_posts = 0
    /\ up_streamed = 0
    /\ up_result = UploadPending
    /\ fm_hash = HashErr
    /\ fm_contents = PrepareIo
    /\ fm_parsed = ParseErr
    /\ fm_pc = "idle"
    /\ fm_result = FormPending
    /\ response = NoResponse
    /\ hr_pc = "idle"
    /\ hr_trace = FALSE
    /\ hr_body_io = ReadOk
    /\ hr_read = "not_read"
    /\ hr_result = NoResult
    /\ ExtractIdle
    /\ DiscoverIdle
    /\ PkgInfoIdle
NextUpload ==
    \/ HashFile
    \/ ExtractMetadata
    \/ BuildForm
    \/ BuildRequest
    \/ Send
    \/ StreamChunk
    \/ SendFails
    \/ ReceiveResponse
    \/ HandleResponse
    \/ UploadReturn
SpecUpload == InitUpload /\ [][NextUpload]_vars

(* Claims about build_request's credentials (SpecUpload) *)
RequestBuilt == up_open = "ok"
RegistryUrl == [base |-> registry, username |-> <<>>, password |-> None]
AuthorizationHeaders ==
    LET IsAuthorization(h) == h[1] = "authorization" IN
    [i \in 1..Len(SelectSeq(up_request.headers, IsAuthorization)) |->
        SelectSeq(up_request.headers, IsAuthorization)[i][2]]
BasicOf(text) == Basic \o base64_encode(as_bytes(text))

(* C15: a username without a password is put into the user-info of the
   request URL (ferris as it is, a@b as a%40b; the rest of the URL is the
   registry URL) and build_request sets no Authorization header; a username
   with a password leaves the request URL equal to the registry URL and sets
   the one header Authorization: Basic base64(username:password), which for
   ferris and F3RR!S is Basic ZmVycmlzOkYzUlIhUw==; without a username the
   request URL equals the registry URL and there is no Authorization header. *)
C15_Credentials ==
    RequestBuilt =>
        /\ (is_some(up_username) /\ ~is_some(up_password)) =>
            /\ up_request.url.base = registry
            /\ up_request.url.password = None
            /\ up_request.url.username = percent_encode(unwrap(up_username))
            /\ up_username = Some(<<"f", "e", "r", "r", "i", "s">>) =>
                up_request.url.username = <<"f", "e", "r", "r", "i", "s">>
            /\ up_username = Some(<<"a", "@", "b">>) =>
                up_request.url.username = <<"a", "%", "4", "0", "b">>
            /\ AuthorizationHeaders = <<>>
        /\ (is_some(up_username) /\ is_some(up_password)) =>
            /\ up_request.url = RegistryUrl
            /\ AuthorizationHeaders =
                <<BasicOf(unwrap(up_username) \o <<":">> \o unwrap(up_password))>>
        /\ (up_username = Some(<<"f", "e", "r", "r", "i", "s">>)
                /\ up_password = Some(<<"F", "3", "R", "R", "!", "S">>)) =>
            AuthorizationHeaders =
                <<Basic \o <<"Z", "m", "V", "y", "c", "m", "l", "z", "O", "k",
                             "Y", "z", "U", "l", "I", "h", "U", "w", "=", "=">>>>
        /\ ~is_some(up_username) =>
            /\ up_request.url = RegistryUrl
            /\ AuthorizationHeaders = <<>>

(* the request built for the username a@b without a password *)
C15_Witness ==
    /\ RequestBuilt
    /\ up_username = Some(<<"a", "@", "b">>)
    /\ up_password = None
    /\ up_request.url.base = registry
    /\ up_request.url.username = <<"a", "%", "4", "0", "b">>
    /\ AuthorizationHeaders = <<>>

(* Claims about upload (SpecUpload) *)
UpDone == up_pc = "done"
Starts == {i \in 1..Len(rp_events) : rp_events[i].kind = "on_download_start"}
LastStep == up_steps[Len(up_steps)]

(* C16, as claimed: every execution of upload has exactly one start
   notification, except that there is none (and no request) when opening the
   file or reading its size fails. *)
C16_Original ==
    UpDone =>
        IF up_open \in {"open_failed", "size_failed"}
        THEN Starts = {} /\ up_posts = 0
        ELSE Cardinality(Starts) = 1

(* C16, amended: there is never more than one start notification; there is
   one exactly when build_request has opened the file and read its size, it
   carries the file name and the size, it is the first call the reporter
   receives (so it precedes every progress notification), and it has been
   received whenever the request has been sent.  An upload that fails in
   hashing, in metadata extraction, in opening the file or in reading its
   size ends without a start notification and without a request. *)
C16_StartNotification ==
    /\ Cardinality(Starts) <= 1
    /\ (Starts # {}) <=> (up_open = "ok")
    /\ rp_events # <<>> => rp_events[1] = DownloadStart(fm_filename, up_size)
    /\ up_posts > 0 => Starts = {1}
    /\ (UpDone /\ LastStep \in {"hash", "metadata"}) =>
            /\ up_open = "unopened"
            /\ rp_events = <<>>
            /\ up_posts = 0
    /\ (UpDone /\ up_open \in {"open_failed", "size_failed"}) =>
            /\ rp_events = <<>>
            /\ up_posts = 0

(* an upload that streamed two chunks after its start notification *)
C16_Witness ==
    /\ UpDone
    /\ up_result.kind = "Ok"
    /\ up_posts = 1
    /\ Len(rp_events) = 3
    /\ Starts = {1}
    /\ rp_events[2].kind = "on_download_progress"

StepOrder == <<"hash", "metadata", "form", "request", "send", "interpret">>

(* C17: the steps of upload are taken in the order hash, metadata, form,
   request, send, interpret; at most one POST is sent, and a response is
   interpreted only after it; a failure of hashing, of metadata extraction or
   of request building is returned as PublishPrepare with the file path and
   without a request having been sent; a failure of sending is returned as
   PublishSend with the file path and the registry URL and no response is
   interpreted; a failure of the interpretation is returned as PublishSend
   with the file path and the registry URL. *)
C17_Pipeline ==
    /\ up_steps = SubSeq(StepOrder, 1, Len(up_steps))
    /\ up_posts <= 1
    /\ (up_posts = 1) <=> (Len(up_steps) >= 5)
    /\ hr_pc # "idle" => up_posts = 1
    /\ UpDone =>
        /\ LastStep \in {"hash", "metadata", "request", "send", "interpret"}
        /\ LastStep \in {"hash", "metadata", "request"} =>
            /\ up_result.kind = "PublishPrepare"
            /\ up_result.path = up_file
            /\ up_posts = 0
        /\ LastStep = "send" =>
            /\ up_result.kind = "PublishSend"
            /\ up_result.path = up_file
            /\ up_result.registry = registry
            /\ up_result.send.kind = "ReqwestMiddleware"
            /\ hr_pc = "idle"
        /\ LastStep = "interpret" =>
            IF hr_result.kind = "Ok"
            THEN up_result.kind = "Ok"
            ELSE /\ up_result.kind = "PublishSend"
                 /\ up_result.path = up_file
                 /\ up_result.registry = registry
                 /\ up_result.send = hr_result

(* an upload whose response was interpreted as a failure *)
C17_Witness ==
    /\ UpDone
    /\ LastStep = "interpret"
    /\ up_steps = StepOrder
    /\ up_result.kind = "PublishSend"
    /\ up_result.send.kind = "Status"
    /\ up_result.registry = registry
    /\ up_posts = 1

ResponseReceived == response \in UploadResponses
BodyText == from_utf8_lossy(response.body)

(* C18: upload returns Ok(true) only if a request was sent, a response was
   received, its URL equals the registry URL and its status is 2xx; it
   returns Ok(false) only if a response was received, its URL equals the
   registry URL, its body was read, and its status is 409, or 403 with
   "overwrite artifact" in the body, or 400 with "updating asset" or "already
   been taken" in the body.  Every interpreted response gives exactly one of
   Ok(true), Ok(false) or a PublishSend failure, and which one depends only
   on the registry URL, the response and whether its body could be read, not
   on whether tracing is enabled. *)
C18_SoundOutcome ==
    /\ up_result = UploadOk(TRUE) =>
        /\ up_posts = 1
        /\ ResponseReceived
        /\ response.url = registry
        /\ 200 <= response.status /\ response.status <= 299
    /\ up_result = UploadOk(FALSE) =>
        /\ up_posts = 1
        /\ ResponseReceived
        /\ response.url = registry
        /\ hr_read = "ok"
        /\ \/ response.status = 409
           \/ response.status = 403 /\ contains(BodyText, <<"overwrite ", "artifact">>)
           \/ response.status = 400 /\ contains(BodyText, <<"updating ", "asset">>)
           \/ response.status = 400 /\ contains(BodyText, <<"already been ", "taken">>)
    /\ (UpDone /\ ResponseReceived) =>
        /\ Cardinality({b \in BOOLEAN : up_result = UploadOk(b)}
                        \cup {k \in {"PublishSend"} : up_result.kind = k}) = 1
        /\ \A trace \in BOOLEAN :
            up_result = upload_result(up_file, registry,
                            handle_response(registry, response, trace, hr_body_io).result)

(* an upload answered 400 "already been taken": Ok(false) *)
C18_Witness ==
    /\ UpDone
    /\ up_result = UploadOk(FALSE)
    /\ response.status = 400
    /\ contains(BodyText, <<"already been ", "taken">>)

=============================================================================
